---- MODULE Spec2Model ----
(***************************************************************************)
(* A model of sitemap-csv: the recursive sitemap walker of                 *)
(* sitemap_to_csv.py (fetch_xml, is_xml_link, parse_sitemap, collect_urls, *)
(* write_csv, main) and the form handler of streamlit_app.py.              *)
(*                                                                         *)
(* A Python str is a sequence of one-character strings, so that strip(),   *)
(* lower(), rstrip("/"), endswith() and the ordering used by sorted() are  *)
(* computed character by character.  Element tags are (namespace, local)   *)
(* pairs; Clark(q) is the "{uri}local" text ElementTree stores.            *)
(***************************************************************************)
EXTENDS Integers, Sequences, FiniteSets, TLC

VARIABLES
    accel,      \* TRUE: xml.etree uses the C accelerator (_elementtree)
    entry,      \* "none" | "cli" | "form": the entry point that was invoked
    args,       \* the inputs of that entry point
    pc,         \* "idle" | "walking" | "returned" | "raised" | "exited"
    web,        \* URL -> response, for the URLs fetched so far (the static input)
    stack,      \* the call stack of parse_sitemap, top frame last
    seen_xml,   \* parse_sitemap's seen_xml set
    emit,       \* parse_sitemap's emit set (collect_urls' collected)
    fetchLog,   \* the URLs fetch_xml was called with, in call order
    result,     \* what collect_urls returned (None until it returns)
    err,        \* the message of the exception that is propagating, or ""
    out,        \* what the entry point produced: exit code, streams, file, view
    xmlIn,      \* is_xml_link: the argument
    xmlOut,     \* is_xml_link: the returned value
    csvIn,      \* write_csv / _build_csv: the iteration order of the urls set
    csvOut      \* write_csv / _build_csv: destination and the rows written

walkVars == <<accel, entry, args, pc, web, stack, seen_xml, emit, fetchLog, result, err, out>>
fnVars == <<xmlIn, xmlOut, csvIn, csvOut>>
vars == <<walkVars, fnVars>>

-----------------------------------------------------------------------------
(* Bounds of the model.                                                    *)

\* the longest argument of is_xml_link drawn from XmlAlphabet
MaxUrlLen == 6
\* the most child elements (sitemap / url entries) the root document holds
MaxEntries == 2
\* the most child elements a document below the root holds
MaxNestedEntries == 1
\* the most URLs in a set handed to the exporter
MaxUrls == 3

-----------------------------------------------------------------------------
(* Python values.                                                          *)

None == [some |-> FALSE, val |-> <<>>]
Some(v) == [some |-> TRUE, val |-> v]

\* `if x:` for x: str | None
Truthy(x) == x.some /\ x.val # <<>>

\* the characters str.strip() removes that occur in the model's texts
Whitespace == {" ", "\t", "\n", "\r"}

UpperChars == <<"A","B","C","D","E","F","G","H","I","J","K","L","M",
                "N","O","P","Q","R","S","T","U","V","W","X","Y","Z">>
LowerChars == <<"a","b","c","d","e","f","g","h","i","j","k","l","m",
                "n","o","p","q","r","s","t","u","v","w","x","y","z">>

\* the characters of the model's texts in code-point order (ord)
CodeOrder == <<"\t", "\n", "\r", " ", "\"", ",", ".", "/",
               "0","1","2","3","4","5","6","7","8","9", ":", "?">>
             \o UpperChars \o LowerChars

lower_char(c) ==
    IF \E i \in 1..Len(UpperChars) : UpperChars[i] = c
    THEN LowerChars[CHOOSE i \in 1..Len(UpperChars) : UpperChars[i] = c]
    ELSE c

\* str.lower()
lower(s) == [i \in 1..Len(s) |-> lower_char(s[i])]

RECURSIVE lstrip(_, _)
lstrip(s, chars) ==
    IF s # <<>> /\ Head(s) \in chars THEN lstrip(Tail(s), chars) ELSE s

RECURSIVE rstrip(_, _)
\* str.rstrip(chars): drops every trailing character that is in chars
rstrip(s, chars) ==
    IF s # <<>> /\ s[Len(s)] \in chars
    THEN rstrip(SubSeq(s, 1, Len(s) - 1), chars)
    ELSE s

\* str.strip()
strip(s) == rstrip(lstrip(s, Whitespace), Whitespace)

\* str.endswith(suffix)
endswith(s, suffix) ==
    /\ Len(s) >= Len(suffix)
    /\ SubSeq(s, Len(s) - Len(suffix) + 1, Len(s)) = suffix

XmlSuffix == <<".", "x", "m", "l">>

\* a mutant of is_xml_link: the comparison is case-sensitive
is_xml_link_cased(url) == endswith(rstrip(url, {"/"}), XmlSuffix)

\* is_xml_link: url.lower().rstrip("/").endswith(".xml")
is_xml_link(url) == endswith(rstrip(lower(url), {"/"}), XmlSuffix)

-----------------------------------------------------------------------------
(* XML documents as ElementTree presents them.                             *)

XML_NAMESPACE == "http://www.sitemaps.org/schemas/sitemap/0.9"
NS == [sm |-> XML_NAMESPACE]

Q(ns, local) == [ns |-> ns, local |-> local]

\* Element.tag: "{uri}local", or "local" for an element in no namespace
Clark(q) == IF q.ns = "" THEN q.local ELSE "{" \o q.ns \o "}" \o q.local

\* root.tag.split("}", 1)[-1]: what follows the first "}" of the tag, or the
\* whole tag when it holds none
local_name(q) == q.local

\* the expanded name ElementPath makes of "prefix:local" under a prefix map
Resolve(prefix, local, map) == "{" \o map[prefix] \o "}" \o local

NoLoc == [some |-> FALSE, tag |-> Q("", ""), text |-> <<>>]
Loc(ns, text) == [some |-> TRUE, tag |-> Q(ns, "loc"), text |-> text]

\* a <sitemap> or <url> element with its <loc> child, if it has one
Element(ns, local, loc) == [tag |-> Q(ns, local), loc |-> loc]

HttpsPrefix == <<"h","t","t","p","s",":","/","/","a",".","c","o","m","/">>
RootUrl  == HttpsPrefix \o <<"s",".","x","m","l">>
ChildUrl == HttpsPrefix \o <<"2",".","x","m","l">>
Url1 == HttpsPrefix \o <<"1">>
Url3 == HttpsPrefix \o <<"3">>

\* findtext's default in the sitemapindex branch
DefaultLoc == <<".", "/", "/">>

\* the <loc> children an entry of a fetched document may have: none, an empty
\* one, a blank one, the root sitemap itself, a padded child sitemap, two pages
LocChoices(ns) ==
    {NoLoc} \cup
    {Loc(ns, t) : t \in {<<>>, <<" ">>, RootUrl,
                         <<" ">> \o ChildUrl \o <<"\n">>, Url1, Url3}}

RECURSIVE SeqsUpTo(_, _)
SeqsUpTo(S, n) ==
    IF n = 0 THEN {<<>>}
    ELSE LET shorter == SeqsUpTo(S, n - 1)
         IN  shorter \cup {Append(s, x) : s \in shorter, x \in S}

XmlDoc(root, children) == [kind |-> "xml", root |-> root, children |-> children]
HttpError == [kind |-> "http_error", root |-> Q("", ""), children |-> <<>>]
NotXml    == [kind |-> "not_xml", root |-> Q("", ""), children |-> <<>>]

\* sitemap documents of at most n entries whose elements are all in namespace
\* ns ("" for none)
SitemapDocs(ns, n) ==
    {XmlDoc(Q(ns, "sitemapindex"), [i \in 1..Len(ls) |-> Element(ns, "sitemap", ls[i])]) :
        ls \in SeqsUpTo(LocChoices(ns), n)}
    \cup
    {XmlDoc(Q(ns, "urlset"), [i \in 1..Len(ls) |-> Element(ns, "url", ls[i])]) :
        ls \in SeqsUpTo(LocChoices(ns), n)}

\* what a GET may yield that is no sitemap: a failure, bytes that are no XML,
\* a document of another kind
NonSitemaps == {HttpError, NotXml, XmlDoc(Q("", "rss"), <<>>)}

\* what a GET of url may yield: the two sitemap URLs serve anything, with or
\* without the namespace; a page URL serves no sitemap
Responses(url) ==
    IF url = RootUrl
    THEN NonSitemaps \cup SitemapDocs(XML_NAMESPACE, MaxEntries)
                     \cup SitemapDocs("", MaxEntries)
    ELSE IF url = ChildUrl
    THEN NonSitemaps \cup SitemapDocs(XML_NAMESPACE, MaxNestedEntries)
                     \cup SitemapDocs("", MaxNestedEntries)
    ELSE NonSitemaps

\* urllib.request.Request(url): a URL without "scheme:" is a ValueError
HasScheme(url) ==
    \E i \in 2..Len(url) :
        /\ url[i] = ":"
        /\ \A j \in 1..(i - 1) : url[j] \notin {"/", ":"}

\* root.findall("sm:<local>", NS): the children whose tag is the expanded name
findall(doc, prefix, local, map) ==
    SelectSeq(doc.children, LAMBDA c : Clark(c.tag) = Resolve(prefix, local, map))

\* elem.findtext("sm:loc", default, NS): the text of the matching child ("" when
\* it has none), else the default
findtext_mapped(elem, prefix, local, default, map) ==
    IF elem.loc.some /\ Clark(elem.loc.tag) = Resolve(prefix, local, map)
    THEN Some(elem.loc.text)
    ELSE default

\* elem.findtext("sm:loc") with no prefix map.  The C accelerator compares each
\* child's tag with the literal path and finds none; the pure-Python
\* ElementPath raises SyntaxError("prefix 'sm' not found in prefix map").
findtext_unmapped(elem, path, c_accel) ==
    IF c_accel
    THEN [raised |-> FALSE,
          value  |-> IF elem.loc.some /\ Clark(elem.loc.tag) = path
                     THEN Some(elem.loc.text) ELSE None]
    ELSE [raised |-> TRUE, value |-> None]

-----------------------------------------------------------------------------
(* The walker: parse_sitemap and collect_urls.                             *)

\* a call of parse_sitemap(url, seen_xml, emit): at "enter" before line 48, at
\* "fetch" before line 52, at "index" / "urlset" inside the for loop over todo
Frame(url) == [url |-> url, at |-> "enter", todo |-> <<>>]

Top == stack[Len(stack)]
Below == SubSeq(stack, 1, Len(stack) - 1)
ReplaceTop(f) == Append(Below, f)

\* an exception leaves every frame of parse_sitemap and collect_urls: nothing
\* in them catches
Raise(msg) ==
    /\ pc' = "raised"
    /\ err' = msg
    /\ stack' = <<>>

\* a mutant of AlreadySeen: the visited test is lost
NeverSeen(url, seen) == FALSE

\* a mutant of AlreadySeen: the URL is looked up in the collected set
SeenAmongCollected(url, seen) == url \in emit

\* line 48: url in seen_xml
AlreadySeen(url, seen) == url \in seen

\* lines 48-50: return at once for a URL already seen, else record it
Enter ==
    /\ pc = "walking"
    /\ stack # <<>>
    /\ Top.at = "enter"
    /\ IF AlreadySeen(Top.url, seen_xml)
       THEN /\ stack' = Below
            /\ UNCHANGED seen_xml
       ELSE /\ seen_xml' = seen_xml \cup {Top.url}
            /\ stack' = ReplaceTop([Top EXCEPT !.at = "fetch"])
    /\ UNCHANGED <<accel, entry, args, pc, web, emit, fetchLog, result, err, out, fnVars>>

\* lines 52-56, 61, 71-72: fetch_xml, ET.fromstring, the dispatch on the root
\* tag, and the findall that the for loop iterates over
Fetch ==
    /\ pc = "walking"
    /\ stack # <<>>
    /\ Top.at = "fetch"
    /\ fetchLog' = Append(fetchLog, Top.url)
    /\ UNCHANGED <<accel, entry, args, seen_xml, emit, result, out, fnVars>>
    /\ IF ~HasScheme(Top.url)
       THEN /\ Raise("unknown url type")
            /\ UNCHANGED web
       ELSE \E resp \in (IF Top.url \in DOMAIN web THEN {web[Top.url]} ELSE Responses(Top.url)) :
            /\ web' = (Top.url :> resp) @@ web
            /\ CASE resp.kind = "http_error" -> Raise("HTTP Error 404: Not Found")
                 [] resp.kind = "not_xml" -> Raise("syntax error: line 1, column 0")
                 [] OTHER ->
                    LET tag == local_name(resp.root) IN
                    IF tag = "sitemapindex"
                    THEN /\ stack' = ReplaceTop([Top EXCEPT !.at = "index",
                                    !.todo = findall(resp, "sm", "sitemap", NS)])
                         /\ UNCHANGED <<pc, err>>
                    ELSE IF tag = "urlset"
                    THEN /\ stack' = ReplaceTop([Top EXCEPT !.at = "urlset",
                                    !.todo = findall(resp, "sm", "url", NS)])
                         /\ UNCHANGED <<pc, err>>
                    ELSE Raise("Unsupported sitemap root tag: " \o Clark(resp.root))

\* lines 57-60: one iteration of the loop over the <sitemap> entries
IndexEntry ==
    /\ pc = "walking"
    /\ stack # <<>>
    /\ Top.at = "index"
    /\ Top.todo # <<>>
    /\ LET loc == findtext_mapped(Head(Top.todo), "sm", "loc", Some(DefaultLoc), NS)
           rest == [Top EXCEPT !.todo = Tail(Top.todo)]
       IN  IF Truthy(loc)
           THEN stack' = Append(ReplaceTop(rest), Frame(strip(loc.val)))
           ELSE stack' = ReplaceTop(rest)
    /\ UNCHANGED <<accel, entry, args, pc, web, seen_xml, emit, fetchLog, result, err, out, fnVars>>

\* lines 62-70: one iteration of the loop over the <url> entries
UrlsetEntry ==
    /\ pc = "walking"
    /\ stack # <<>>
    /\ Top.at = "urlset"
    /\ Top.todo # <<>>
    /\ LET found == findtext_unmapped(Head(Top.todo), "sm:loc", accel)
           rest == [Top EXCEPT !.todo = Tail(Top.todo)]
       IN  IF found.raised
           THEN /\ Raise("prefix 'sm' not found in prefix map")
                /\ UNCHANGED emit
           ELSE /\ UNCHANGED <<pc, err>>
                /\ IF ~Truthy(found.value)
                   THEN /\ stack' = ReplaceTop(rest)
                        /\ UNCHANGED emit
                   ELSE IF is_xml_link(strip(found.value.val))
                   THEN /\ stack' = Append(ReplaceTop(rest), Frame(strip(found.value.val)))
                        /\ UNCHANGED emit
                   ELSE /\ stack' = ReplaceTop(rest)
                        /\ emit' = emit \cup {strip(found.value.val)}
    /\ UNCHANGED <<accel, entry, args, web, seen_xml, fetchLog, result, out, fnVars>>

\* the for loop is exhausted: parse_sitemap returns to its caller
LoopEnd ==
    /\ pc = "walking"
    /\ stack # <<>>
    /\ Top.at \in {"index", "urlset"}
    /\ Top.todo = <<>>
    /\ stack' = Below
    /\ UNCHANGED <<accel, entry, args, pc, web, seen_xml, emit, fetchLog, result, err, out, fnVars>>

\* line 80: the outermost parse_sitemap has returned; collect_urls returns collected
CollectReturn ==
    /\ pc = "walking"
    /\ stack = <<>>
    /\ result' = [some |-> TRUE, val |-> emit]
    /\ pc' = "returned"
    /\ UNCHANGED <<accel, entry, args, web, stack, seen_xml, emit, fetchLog, err, out, fnVars>>

-----------------------------------------------------------------------------
(* The exporter: write_csv and _build_csv.                                 *)

\* ord(c)
Code(c) == CHOOSE i \in 1..Len(CodeOrder) : CodeOrder[i] = c

RECURSIVE str_lt(_, _)
\* a < b for two str: the first differing code point decides, a proper prefix
\* is smaller
str_lt(a, b) ==
    IF b = <<>> THEN FALSE
    ELSE IF a = <<>> THEN TRUE
    ELSE IF Head(a) = Head(b) THEN str_lt(Tail(a), Tail(b))
    ELSE Code(Head(a)) < Code(Head(b))

\* x put behind the elements of the ascending list s that are not greater
Insert(x, s) ==
    LET k == Cardinality({i \in 1..Len(s) : ~str_lt(x, s[i])})
    IN  SubSeq(s, 1, k) \o <<x>> \o SubSeq(s, k + 1, Len(s))

RECURSIVE sorted(_)
\* sorted(urls): the elements in ascending order, whatever order they come in
sorted(s) ==
    IF s = <<>> THEN <<>>
    ELSE Insert(s[Len(s)], sorted(SubSeq(s, 1, Len(s) - 1)))

CsvSpecial == {",", "\"", "\r", "\n"}

RECURSIVE DoubleQuotes(_)
DoubleQuotes(f) ==
    IF f = <<>> THEN <<>>
    ELSE (IF Head(f) = "\"" THEN <<"\"", "\"">> ELSE <<Head(f)>>) \o DoubleQuotes(Tail(f))

\* csv.writer(...).writerow([field]) in the default dialect: the field, quoted
\* when it is empty or holds the delimiter, a quote or a line break, then "\r\n"
writerow(field) ==
    (IF field = <<>> \/ \E i \in 1..Len(field) : field[i] \in CsvSpecial
     THEN <<"\"">> \o DoubleQuotes(field) \o <<"\"">>
     ELSE field)
    \o <<"\r", "\n">>

Header == <<"u", "r", "l">>

\* a mutant of write_csv: the rows are written in the set's iteration order
write_csv_unsorted(urls) ==
    <<writerow(Header)>> \o [i \in 1..Len(urls) |-> writerow(urls[i])]

\* write_csv, lines 87-89: the lines written to the file, for a set iterated
\* in the order urls
write_csv(urls) ==
    <<writerow(Header)>> \o [i \in 1..Len(urls) |-> writerow(sorted(urls)[i])]

\* _build_csv, lines 23-26 of streamlit_app.py: the lines of the returned text
build_csv(urls) ==
    <<writerow(Header)>> \o [i \in 1..Len(urls) |-> writerow(sorted(urls)[i])]

\* the orders in which a Python set may be iterated
IterationOrders(S) ==
    {f \in [1..Cardinality(S) -> S] : \A i, j \in 1..Cardinality(S) : f[i] = f[j] => i = j}

-----------------------------------------------------------------------------
(* The entry points: main and the form's submission handler.               *)

NoSet == [some |-> FALSE, val |-> {}]
NoArgs == [sitemap |-> <<>>, output |-> "", strip_domain |-> FALSE]
NoOut == [exited |-> FALSE, code |-> 0, stdout |-> <<>>, stderr |-> "",
          file |-> None, view |-> "none", banner |-> <<>>, download |-> None]

\* the parameters of collect_urls (line 75) and the keywords the form passes
\* (streamlit_app.py lines 48-52)
collect_urls_params == {"root_sitemap", "cert_file"}
FormKeywords == {"cert_file", "strip_domain"}

\* lines 77-79 of collect_urls: two empty sets and the outermost parse_sitemap
CollectUrls(root) ==
    /\ seen_xml' = {}
    /\ emit' = {}
    /\ stack' = <<Frame(root)>>
    /\ pc' = "walking"

\* main, lines 110-113: the command line is parsed and collect_urls is called
CliStart ==
    /\ pc = "idle"
    /\ entry' = "cli"
    /\ args' = [NoArgs EXCEPT !.sitemap = RootUrl, !.output = "sitemap_urls.csv"]
    /\ CollectUrls(RootUrl)
    /\ UNCHANGED <<accel, web, fetchLog, result, err, out, fnVars>>

\* the texts the form's URL field is submitted with
FormTexts == {<<>>, <<" ">>, RootUrl, <<" ">> \o RootUrl \o <<" ">>}

\* streamlit_app.py, lines 40-52: the submission up to the call of collect_urls.
\* A keyword the callee has no parameter for is a TypeError at the call.  The
\* certifi checkbox only selects the CA bundle handed to fetch_xml, whose
\* outcomes Responses covers either way.
FormSubmit ==
    /\ pc = "idle"
    /\ entry' = "form"
    /\ \E text \in FormTexts, strip_domain \in BOOLEAN :
        /\ args' = [NoArgs EXCEPT !.sitemap = strip(text), !.output = "sitemap_links.csv",
                                  !.strip_domain = strip_domain]
        /\ IF strip(text) = <<>>
           THEN /\ out' = [out EXCEPT !.view = "error",
                                      !.banner = <<"Please provide a sitemap URL.">>]
                /\ pc' = "exited"
                /\ UNCHANGED <<stack, seen_xml, emit, err>>
           ELSE IF FormKeywords \subseteq collect_urls_params
           THEN /\ CollectUrls(strip(text))
                /\ UNCHANGED <<out, err>>
           ELSE /\ Raise("collect_urls() got an unexpected keyword argument 'strip_domain'")
                /\ UNCHANGED <<out, seen_xml, emit>>
    /\ UNCHANGED <<accel, web, fetchLog, result, fnVars>>

\* a mutant of Report: the failure is reported but the partial set is exported
ReportAndExport ==
    /\ pc = "raised"
    /\ pc' = "exited"
    /\ \E order \in IterationOrders(emit) :
         out' = [out EXCEPT !.stderr = "Failed to parse sitemap: " \o err,
                            !.file = Some(write_csv(order)),
                            !.exited = TRUE, !.code = 1]
    /\ UNCHANGED <<accel, entry, args, web, stack, seen_xml, emit, fetchLog, result, err, fnVars>>

\* main, lines 114-116, and streamlit_app.py, lines 53-54: the handler of the
\* exception that left collect_urls
Report ==
    /\ pc = "raised"
    /\ pc' = "exited"
    /\ IF entry = "cli"
       THEN out' = [out EXCEPT !.stderr = "Failed to parse sitemap: " \o err,
                               !.exited = TRUE, !.code = 1]
       ELSE out' = [out EXCEPT !.view = "error",
                               !.banner = <<"Failed to collect URLs: " \o err>>]
    /\ UNCHANGED <<accel, entry, args, web, stack, seen_xml, emit, fetchLog, result, err, fnVars>>

\* main, lines 118-119, and streamlit_app.py, lines 55-62: what follows a
\* collect_urls that returned
Deliver ==
    /\ pc = "returned"
    /\ pc' = "exited"
    /\ \E order \in IterationOrders(result.val) :
         IF entry = "cli"
         THEN out' = [out EXCEPT !.file = Some(write_csv(order)),
                        !.stdout = <<"Wrote ", Cardinality(result.val),
                                     " unique URLs to ", args.output>>,
                        !.exited = TRUE, !.code = 0]
         ELSE out' = [out EXCEPT !.view = "success",
                        !.banner = <<"Discovered ", Cardinality(result.val), " URL(s)">>,
                        !.download = Some(build_csv(order))]
    /\ UNCHANGED <<accel, entry, args, web, stack, seen_xml, emit, fetchLog, result, err, fnVars>>

IdleFns ==
    /\ xmlIn = <<>>
    /\ xmlOut = "unset"
    /\ csvIn = <<>>
    /\ csvOut = [dest |-> "none", rows |-> <<>>]

IdleWalk ==
    /\ entry = "none"
    /\ args = NoArgs
    /\ pc = "idle"
    /\ web = <<>>
    /\ stack = <<>>
    /\ seen_xml = {}
    /\ emit = {}
    /\ fetchLog = <<>>
    /\ result = NoSet
    /\ err = ""
    /\ out = NoOut

Init ==
    /\ accel \in BOOLEAN
    /\ IdleWalk
    /\ IdleFns

Next ==
    \/ CliStart
    \/ FormSubmit
    \/ Enter
    \/ Fetch
    \/ IndexEntry
    \/ UrlsetEntry
    \/ LoopEnd
    \/ CollectReturn
    \/ Report
    \/ Deliver

\* the program is sequential and never waits: an enabled step is taken
Spec == Init /\ [][Next]_vars /\ WF_vars(Next)

-----------------------------------------------------------------------------
(* is_xml_link and the exporter on their own.                              *)

XmlAlphabet == {".", "X", "m", "l", "/"}

HttpsX == <<"h","t","t","p","s",":","/","/","x",".","c","o","m","/">>
ExSitemap      == HttpsX \o <<"s","i","t","e","m","a","p",".","x","m","l">>
ExSitemapUpper == HttpsX \o <<"S","I","T","E","M","A","P",".","X","M","L","/">>
ExPage         == HttpsX \o <<"p","a","g","e">>
ExXmlHtml      == HttpsX \o <<"a",".","x","m","l",".","h","t","m","l">>

XmlInputs ==
    SeqsUpTo(XmlAlphabet, MaxUrlLen) \cup {ExSitemap, ExSitemapUpper, ExPage, ExXmlHtml}

\* a call of is_xml_link(xmlIn)
Classify ==
    /\ xmlOut = "unset"
    /\ xmlOut' = IF is_xml_link(xmlIn) THEN "True" ELSE "False"
    /\ UNCHANGED <<walkVars, xmlIn, csvIn, csvOut>>

InitXml ==
    /\ accel = TRUE
    /\ IdleWalk
    /\ xmlIn \in XmlInputs
    /\ xmlOut = "unset"
    /\ csvIn = <<>>
    /\ csvOut = [dest |-> "none", rows |-> <<>>]

NextXml == Classify

SpecXml == InitXml /\ [][NextXml]_vars

\* URLs handed to the exporter: a prefix of another, an upper-case letter, a
\* comma, a quote
UrlPool == {<<"a">>, <<"a", "/", "b">>, <<"B">>, <<"a", ",", "b">>, <<"a", "\"">>}

CsvInputs ==
    UNION {IterationOrders(S) : S \in {T \in SUBSET UrlPool : Cardinality(T) <= MaxUrls}}

\* write_csv(urls, path) for a set iterated in the order csvIn
WriteCsv ==
    /\ csvOut.dest = "none"
    /\ csvOut' = [dest |-> "file", rows |-> write_csv(csvIn)]
    /\ UNCHANGED <<walkVars, xmlIn, xmlOut, csvIn>>

\* _build_csv(urls) for a set iterated in the order csvIn
BuildCsv ==
    /\ csvOut.dest = "none"
    /\ csvOut' = [dest |-> "string", rows |-> build_csv(csvIn)]
    /\ UNCHANGED <<walkVars, xmlIn, xmlOut, csvIn>>

InitCsv ==
    /\ accel = TRUE
    /\ IdleWalk
    /\ xmlIn = <<>>
    /\ xmlOut = "unset"
    /\ csvIn \in CsvInputs
    /\ csvOut = [dest |-> "none", rows |-> <<>>]

NextCsv ==
    \/ WriteCsv
    \/ BuildCsv

SpecCsv == InitCsv /\ [][NextCsv]_vars

-----------------------------------------------------------------------------
(* Classification (C7).                                                    *)

\* s and t agree letter by letter when case is ignored
SameIgnoringCase(s, t) ==
    /\ Len(s) = Len(t)
    /\ \A i \in 1..Len(s) : lower_char(s[i]) = lower_char(t[i])

\* url is some text ending in ".xml" (any case) followed by k "/" characters
XmlThenSlashes(url, k) ==
    /\ Len(url) >= k + Len(XmlSuffix)
    /\ \A i \in (Len(url) - k + 1)..Len(url) : url[i] = "/"
    /\ SameIgnoringCase(SubSeq(url, Len(url) - k - Len(XmlSuffix) + 1, Len(url) - k),
                        XmlSuffix)

\* C7 as stated: is_xml_link(url) is true exactly when url, compared
\* case-insensitively and ignoring a trailing path separator (one, if there
\* is one), ends in ".xml".
C7_OneSeparator ==
    xmlOut # "unset" =>
        ((xmlOut = "True") <=> (XmlThenSlashes(xmlIn, 0) \/ XmlThenSlashes(xmlIn, 1)))

\* C7 amended: is_xml_link(url) is true exactly when url, compared
\* case-insensitively and ignoring all of its trailing path separators, however
\* many, ends in ".xml"; it is true of https://x.com/sitemap.xml and
\* https://x.com/SITEMAP.XML/ and false of https://x.com/page and
\* https://x.com/a.xml.html.
C7_AnySeparators ==
    xmlOut # "unset" =>
        /\ (xmlOut = "True") <=> (\E k \in 0..Len(xmlIn) : XmlThenSlashes(xmlIn, k))
        /\ xmlIn \in {ExSitemap, ExSitemapUpper} => xmlOut = "True"
        /\ xmlIn \in {ExPage, ExXmlHtml} => xmlOut = "False"

\* an upper-case XML reference with a trailing separator has been classified
C7_Witness == xmlIn = ExSitemapUpper /\ xmlOut = "True"

-----------------------------------------------------------------------------
(* Export (C8).                                                            *)

\* a comes before b in code-point order: at the first place where they differ
\* a holds the smaller code point, or a is a proper prefix of b
LexBefore(a, b) ==
    \E k \in 0..Len(a) :
        /\ k <= Len(b)
        /\ SubSeq(a, 1, k) = SubSeq(b, 1, k)
        /\ \/ k = Len(a) /\ k < Len(b)
           \/ k < Len(a) /\ k < Len(b) /\ Code(a[k + 1]) < Code(b[k + 1])

RECURSIVE Undouble(_)
Undouble(f) ==
    IF f = <<>> THEN <<>>
    ELSE IF Len(f) >= 2 /\ f[1] = "\"" /\ f[2] = "\""
    THEN <<"\"">> \o Undouble(SubSeq(f, 3, Len(f)))
    ELSE <<Head(f)>> \o Undouble(Tail(f))

\* the single field a reader of the table gets from one written line
ReadRow(line) ==
    LET body == SubSeq(line, 1, Len(line) - 2)
    IN  IF body # <<>> /\ Head(body) = "\""
        THEN Undouble(SubSeq(body, 2, Len(body) - 1))
        ELSE body

\* the line is one record of one field: it ends in "\r\n", and a delimiter,
\* quote or line break occurs only inside quotes
OneField(line) ==
    LET body == SubSeq(line, 1, Len(line) - 2)
    IN  /\ Len(line) >= 2
        /\ SubSeq(line, Len(line) - 1, Len(line)) = <<"\r", "\n">>
        /\ \/ \A i \in 1..Len(body) : body[i] \notin CsvSpecial
           \/ Len(body) >= 2 /\ Head(body) = "\"" /\ body[Len(body)] = "\""

\* C8: for every finite set of URLs the table written by write_csv and by
\* _build_csv is the header row "url" followed by exactly one row per element of
\* the set, each holding that URL as its only field, in ascending lexicographic
\* order; so it is the same for every order in which the set is iterated.
C8_SortedRows ==
    csvOut.dest # "none" =>
        LET rows == csvOut.rows
            n == Len(csvIn)
        IN  /\ Len(rows) = n + 1
            /\ rows[1] = <<"u", "r", "l", "\r", "\n">>
            /\ \A i \in 2..(n + 1) : OneField(rows[i])
            /\ {ReadRow(rows[i]) : i \in 2..(n + 1)} = {csvIn[i] : i \in 1..n}
            /\ \A i \in 2..n : LexBefore(ReadRow(rows[i]), ReadRow(rows[i + 1]))

\* a set iterated out of order has been written to a file
C8_Witness ==
    /\ csvOut.dest = "file"
    /\ Len(csvIn) >= 3
    /\ LexBefore(csvIn[2], csvIn[1])
    /\ \E i \in 1..Len(csvIn) : \E j \in 1..Len(csvIn[i]) : csvIn[i][j] = ","

-----------------------------------------------------------------------------
(* What the walker is to do with a document, read off the document alone.  *)

Range(f) == {f[i] : i \in 1..Len(f)}

IsXml(doc) == doc.kind = "xml"
IsIndex(doc) == IsXml(doc) /\ doc.root.local = "sitemapindex"
IsUrlset(doc) == IsXml(doc) /\ doc.root.local = "urlset"
Namespaced(doc) == doc.root.ns = XML_NAMESPACE

\* an entry whose loc is missing, empty, or empty once trimmed
Skippable(e) == ~e.loc.some \/ strip(e.loc.text) = <<>>

\* the trimmed, non-empty loc values of the document's entries
Locs(doc) == {strip(e.loc.text) : e \in {c \in Range(doc.children) : ~Skippable(c)}}

\* the sitemaps the document refers to, and the pages it lists
Targets(doc) ==
    IF IsIndex(doc) THEN Locs(doc)
    ELSE IF IsUrlset(doc) THEN {u \in Locs(doc) : is_xml_link(u)}
    ELSE {}
Pages(doc) ==
    IF IsUrlset(doc) THEN {u \in Locs(doc) : ~is_xml_link(u)} ELSE {}

Fetched == DOMAIN web
AllTargets == UNION {Targets(web[u]) : u \in Fetched}
AllPages == UNION {Pages(web[u]) : u \in Fetched}

RECURSIVE ReachableFrom(_, _)
\* what is reached from the URLs S in at most n references
ReachableFrom(S, n) ==
    IF n = 0 THEN S
    ELSE ReachableFrom(S \cup UNION {Targets(web[u]) : u \in S \cap Fetched}, n - 1)

\* no fetched document refers, directly or through others, to itself
Acyclic ==
    \A u \in Fetched : u \notin ReachableFrom(Targets(web[u]), Cardinality(Fetched))

\* every document fetched is a sitemap in the sitemap namespace whose entries
\* all carry a loc that is not blank
AllWellFormed ==
    \A u \in Fetched :
        /\ IsIndex(web[u]) \/ IsUrlset(web[u])
        /\ Namespaced(web[u])
        /\ \A c \in Range(web[u].children) : ~Skippable(c)

-----------------------------------------------------------------------------
(* The claims about the walker.                                            *)

\* C1: on an acyclic graph whose fetches and parses all succeed, collect_urls
\* returns exactly the trimmed loc values reachable from the root that are not
\* XML-sitemap references: every sitemap a fetched document refers to has been
\* fetched too, and the result is the set of pages of the fetched documents.
C1_ExactResult ==
    (pc = "returned" /\ entry = "cli" /\ AllWellFormed /\ Acyclic) =>
        /\ AllTargets \subseteq Fetched
        /\ result.val = AllPages

\* the index whose only entry is the root itself
SelfIndex ==
    XmlDoc(Q(XML_NAMESPACE, "sitemapindex"),
           <<Element(XML_NAMESPACE, "sitemap", Loc(XML_NAMESPACE, RootUrl))>>)

\* a call of parse_sitemap is about to start for a URL already visited
ReEntry ==
    /\ pc = "walking"
    /\ stack # <<>>
    /\ Top.at = "enter"
    /\ Top.url \in seen_xml

\* every URL text a traversal of the model's documents can be called with
Visitable ==
    {RootUrl, DefaultLoc}
    \cup {strip(l.text) : l \in {c \in LocChoices(XML_NAMESPACE) : c.some}}

Rank(p) ==
    CASE p = "idle" -> 3
      [] p = "walking" -> 2
      [] p \in {"returned", "raised"} -> 1
      [] OTHER -> 0

\* the URLs still to be visited, counted twice, and those visited but not
\* yet fetched
UrlsLeft(seen, log) ==
    2 * Cardinality(Visitable \ seen) + Cardinality(seen \ Range(log))

RECURSIVE StackWork(_)
\* the calls still to return and, twice, the entries still to be looped over
StackWork(st) ==
    IF st = <<>> THEN 0
    ELSE 1 + 2 * Len(Head(st).todo) + StackWork(Tail(st))

\* the step makes (Rank, UrlsLeft, StackWork) smaller in lexicographic order
Progresses ==
    \/ Rank(pc') < Rank(pc)
    \/ /\ Rank(pc') = Rank(pc)
       /\ UrlsLeft(seen_xml', fetchLog') < UrlsLeft(seen_xml, fetchLog)
    \/ /\ Rank(pc') = Rank(pc)
       /\ UrlsLeft(seen_xml', fetchLog') = UrlsLeft(seen_xml, fetchLog)
       /\ StackWork(stack') < StackWork(stack)

\* C2: on a graph with cycles collect_urls terminates, having fetched at most
\* as many documents as there are distinct sitemap URLs (the root and the
\* sitemaps the documents refer to): the program is never stuck before its
\* exit and every step lowers a measure bounded by the number of URLs not yet
\* visited.  A call for a URL already visited returns at once and changes
\* nothing, so the result is that of the graph with the repeated references
\* removed; a root index whose only entry is itself is fetched once and yields
\* the empty set.
C2_CyclesTerminate ==
    /\ [](pc = "returned" =>
            /\ Len(fetchLog) <= Cardinality({args.sitemap} \cup AllTargets)
            /\ (web[RootUrl] = SelfIndex =>
                    fetchLog = <<RootUrl>> /\ result.val = {}))
    /\ [](pc # "exited" => ENABLED Next)
    /\ [][Progresses]_vars
    /\ [][ReEntry => /\ stack' = Below
                     /\ UNCHANGED <<seen_xml, emit, fetchLog, web, pc, err>>]_vars

\* a traversal has returned from an index that refers to a child index that
\* refers back to the root
C2_Witness ==
    /\ pc = "returned"
    /\ ChildUrl \in Fetched
    /\ IsIndex(web[RootUrl]) /\ ChildUrl \in Targets(web[RootUrl])
    /\ IsIndex(web[ChildUrl]) /\ RootUrl \in Targets(web[ChildUrl])

\* C3: no URL is fetched twice in one collect_urls call: fetch_xml is only
\* called for a URL that parse_sitemap has just inserted into the visited set
\* and that was not in it, so was not fetched, before.
C3_FetchedOnce ==
    /\ \A i, j \in 1..Len(fetchLog) : fetchLog[i] = fetchLog[j] => i = j
    /\ Range(fetchLog) \subseteq seen_xml
    /\ \A k \in 1..Len(stack) :
          stack[k].at = "fetch" =>
              stack[k].url \in seen_xml /\ stack[k].url \notin Range(fetchLog)

\* a traversal has returned from a root that lists the same child twice and
\* itself
C3_Witness ==
    /\ pc = "returned"
    /\ fetchLog = <<RootUrl, ChildUrl>>
    /\ Len(web[RootUrl].children) >= 2
    /\ \A c \in Range(web[RootUrl].children) : ~Skippable(c)
    /\ Targets(web[RootUrl]) = {ChildUrl}
    /\ Targets(web[ChildUrl]) = {ChildUrl}

\* C4: an error raised inside the traversal (a failed fetch, bytes that are no
\* XML, a root tag that is neither sitemapindex nor urlset) aborts it:
\* collect_urls returns no set, and main prints "Failed to parse sitemap:
\* <message>" to stderr, exits with code 1 and writes no file.
C4_ErrorsAbort ==
    /\ (\E u \in Fetched : web[u] \in NonSitemaps) => err # ""
    /\ err # "" => /\ pc \in {"raised", "exited"}
                   /\ stack = <<>>
                   /\ result = NoSet
    /\ (err # "" /\ pc = "exited" /\ entry = "cli") =>
          /\ out.exited /\ out.code = 1
          /\ out.stderr = "Failed to parse sitemap: " \o err
          /\ out.stdout = <<>>
          /\ out.file = None

\* main has exited after a nested sitemap could not be fetched
C4_Witness ==
    /\ pc = "exited"
    /\ entry = "cli"
    /\ out.code = 1
    /\ fetchLog = <<RootUrl, ChildUrl>>
    /\ web[ChildUrl] = HttpError

\* C5: in a sitemapindex, an entry whose loc is missing, empty or blank is
\* skipped silently: a traversal that has met only sitemap-namespace indexes
\* has raised no error and has visited only the root and the trimmed, non-empty
\* loc values.
C5_IndexSkips ==
    (entry = "cli" /\ \A u \in Fetched : IsIndex(web[u]) /\ Namespaced(web[u])) =>
        /\ err = ""
        /\ seen_xml \subseteq {args.sitemap} \cup AllTargets
        /\ Range(fetchLog) \subseteq {args.sitemap} \cup AllTargets

\* C6: in a urlset, an entry whose loc is missing, empty or blank is skipped:
\* a traversal of a root urlset whose entries are all of that kind raises no
\* error, visits nothing but the root, collects nothing, and the collected set
\* never holds the empty string.
C6_UrlsetSkips ==
    /\ <<>> \notin emit
    /\ (/\ entry = "cli"
        /\ RootUrl \in Fetched
        /\ IsUrlset(web[RootUrl]) /\ Namespaced(web[RootUrl])
        /\ \A c \in Range(web[RootUrl].children) : Skippable(c)) =>
          /\ err = ""
          /\ seen_xml = {RootUrl}
          /\ emit = {}

\* C9: a document without the sitemap namespace is walked like the same
\* document in the namespace: once collect_urls has returned, every sitemap
\* that a fetched namespace-less index refers to has been visited.
C9_NamespaceTolerant ==
    pc = "returned" =>
        \A u \in Fetched :
            (IsIndex(web[u]) /\ web[u].root.ns = "") => Targets(web[u]) \subseteq seen_xml

\* C10: a form submission with a non-empty root URL runs the traversal: when
\* the handler is done the root has been visited and fetched, and the form shows
\* the error state only if the traversal itself failed.
C10_FormRunsTraversal ==
    (entry = "form" /\ pc = "exited" /\ args.sitemap # <<>>) =>
        /\ args.sitemap \in seen_xml
        /\ fetchLog # <<>>

====
